---- MODULE Spec2Model ----
(***************************************************************************)
(* State-machine model of realcodeworld/github-metrics: GitHubClient       *)
(* (src/src/client.py), GitHubMetrics (src/src/metrics.py) and the record  *)
(* types (src/src/models.py).                                              *)
(*                                                                         *)
(* One step of the model is one HTTP POST, one time.sleep, one call entry  *)
(* or one return.  Every caller thread has a frame th[t] holding the       *)
(* locals of the call it is executing.  The result caches of               *)
(* functools.lru_cache are the only state shared between calls.            *)
(***************************************************************************)
EXTENDS Integers, Sequences, FiniteSets, TLC

VARIABLES
    th,      \* th[t]: frame of caller thread t (locals of the call in progress)
    lru,     \* lru_cache of get_users_contributed_repos_and_prs, least recent first
    mlru,    \* lru_cache of get_org_members, least recent first
    impl,    \* which functools.lru_cache the interpreter provides ("C" or "Python")
    calls,   \* number of client calls the caller may still start
    faults,  \* number of upstream failures that may still be injected
    last,    \* what the previous completed call on this client returned (history)
    dm       \* the values being demultiplexed and aggregated (SpecDemux, SpecMetrics)

vars == <<th, lru, mlru, impl, calls, faults, last, dm>>


----------------------------------------------------------------------------
(* Program constants *)

BATCH_SIZE == 25           \* client.py:74
PER_PAGE == 100            \* client.py:259 and :292, 'per_page': 100
RateLimitFloor == 10       \* client.py:340, remaining < 10
Retries == 3               \* client.py:87 and :230, retries=3
BackoffInSeconds == 1      \* client.py:87 and :230, backoff_in_seconds=1
LruMaxSize == 32           \* client.py:67 and :178, maxsize=32

(* Bounds of the model *)

MaxCalls == 3              \* client calls in one run of Spec
MaxFailures == 5           \* upstream failures injected in one run of SpecMembers
BatchFailures == 2         \* upstream failures injected in one run of SpecBatch
ClientFailures == 1        \* upstream failures injected in one run of Spec or SpecConc
MaxUsers == 51             \* usernames in the longest tuple of SpecBatch
JitterSteps == 2           \* random.uniform(0, 1) takes the values k / JitterSteps
MaxPRNodes == 2            \* user_j nodes in one batch response of SpecDemux
MaxReviewNodes == 1        \* reviews_j nodes in one batch response of SpecDemux
MaxPages == 3              \* pages the upstream serves to get_org_members
MaxPageSize == 2           \* members on one page
MaxPRs == 4                \* pull requests in one list of SpecMetrics
MaxAssigns == 1            \* field assignments to one ContributionMetrics in SpecMetrics
MaxRestPages == 2          \* listing pages the upstream serves on a REST path
RestFailures == 1          \* upstream failures injected in one run of SpecRest
MaxKeys == 34              \* distinct cache keys the caller of SpecLru uses
MaxRepeats == 2            \* calls of SpecLru that repeat a key used before
MaxLoopPages == 4          \* pages followed of an upstream that never reports the last page

----------------------------------------------------------------------------
(* Small helpers *)

Range(s) == {s[k] : k \in DOMAIN s}

RECURSIVE Pow2(_)
Pow2(x) == IF x = 0 THEN 1 ELSE 2 * Pow2(x - 1)

Min(a, b) == IF a < b THEN a ELSE b

\* usernames[i:i + BATCH_SIZE] with a 0-based start index i (Python slice)
Slice(s, i, n) == SubSeq(s, i + 1, Min(i + n, Len(s)))

RECURSIVE Flatten(_)
Flatten(ss) == IF ss = <<>> THEN <<>> ELSE Head(ss) \o Flatten(Tail(ss))

RECURSIVE SumSeq(_)
SumSeq(s) == IF s = <<>> THEN 0 ELSE Head(s) + SumSeq(Tail(s))

----------------------------------------------------------------------------
(* JSON values.  An optional value (a key that may be absent, a value that *)
(* may be null) is a sequence of length at most one: <<>> is Python's None *)
(* as dict.get returns it, <<v>> is the value v.                           *)

Nothing == <<>>
Just(v) == <<v>>

\* dict.get(key, default) on an optional field
GetOr(field, default) == IF field = Nothing THEN default ELSE field[1]

(* A node of a search connection.  kind "null" is JSON null, "scalar" is a *)
(* non-object JSON value, "obj" is an object whose absent keys are Nothing *)
NullNode ==
    [kind |-> "null", number |-> Nothing, additions |-> Nothing, deletions |-> Nothing,
     createdAt |-> Nothing, mergedAt |-> Nothing, state |-> Nothing, author |-> Nothing]
ScalarNode == [NullNode EXCEPT !.kind = "scalar"]
EmptyNode == [NullNode EXCEPT !.kind = "obj"]
NodeA ==
    [EmptyNode EXCEPT !.number = Just(1), !.additions = Just(5), !.deletions = Just(2),
                      !.createdAt = Just("t1"), !.state = Just("OPEN")]
NodeB ==
    [EmptyNode EXCEPT !.number = Just(2), !.additions = Just(3), !.deletions = Just(1),
                      !.createdAt = Just("t2"), !.mergedAt = Just("t3"),
                      !.state = Just("MERGED")]
PRNodeShapes ==
    {NullNode, ScalarNode, EmptyNode, NodeA, NodeB,
     [NodeB EXCEPT !.number = Nothing], [NodeB EXCEPT !.additions = Nothing],
     [NodeB EXCEPT !.deletions = Nothing], [NodeB EXCEPT !.createdAt = Nothing]}
AuthoredReview == [EmptyNode EXCEPT !.number = Just(8), !.author = Just("bob")]
ReviewNodeShapes == {NullNode, [EmptyNode EXCEPT !.number = Just(7)], AuthoredReview}

\* Python truthiness of a node: None and the empty dict are falsy
NodeTruthy(node) ==
    /\ node.kind # "null"
    /\ ~(node.kind = "obj" /\ \A k \in DOMAIN node : k = "kind" \/ node[k] = Nothing)

(* An alias value of response['data'].  Nothing: the alias is absent, null *)
(* or an empty object.  [nodes |-> Nothing]: an object without 'nodes'.    *)
NoNodes == [nodes |-> Nothing]
WithNodes(ns) == [nodes |-> Just(ns)]

\* response['data'].get(alias)
DataGet(data, alias) == IF alias \in DOMAIN data THEN data[alias] ELSE Nothing

\* UserAlias with a fault: the alias of the first position is read for every position
UserAliasOfFirst(j) == <<"user", 0>>

UserAlias(j) == <<"user", j>>
ReviewsAlias(j) == <<"reviews", j>>

(* A decoded response body of the GraphQL endpoint.  kind is "null" (JSON  *)
(* null), "nodata" (an object without 'data'), "datanull" ('data': null)   *)
(* or "data" ('data' is the object in .data).                              *)
Body(kind, data) == [kind |-> kind, data |-> data]
NoAliases == [a \in {} |-> Nothing]

----------------------------------------------------------------------------
(* models.py: PullRequest *)

PullRequest(number, additions, deletions, created_at, merged_at, state, reviews_given) ==
    [number |-> number, additions |-> additions, deletions |-> deletions,
     created_at |-> created_at, merged_at |-> merged_at, state |-> state,
     reviews_given |-> reviews_given]

(* client.py:147-152: reviews_given of one user *)
RECURSIVE CountAuthored(_)
CountAuthored(nodes) ==
    IF nodes = <<>> THEN 0
    ELSE (IF NodeTruthy(Head(nodes)) /\ Head(nodes).kind = "obj"
             /\ Head(nodes).author # Nothing
          THEN 1 ELSE 0) + CountAuthored(Tail(nodes))

ReviewsGiven(reviews_data) ==
    IF reviews_data # Nothing /\ reviews_data[1].nodes # Nothing
    THEN CountAuthored(reviews_data[1].nodes[1])
    ELSE 0

(* client.py:155-171: the PullRequest records of one user's nodes.  A      *)
(* falsy node is skipped; node.get on a non-object raises and the except   *)
(* clause skips the node; the dataclass constructor accepts any values.    *)
RECURSIVE BuildPRs(_, _)
BuildPRs(nodes, reviews_given) ==
    IF nodes = <<>> THEN <<>>
    ELSE LET node == Head(nodes)
             rest == BuildPRs(Tail(nodes), reviews_given)
         IN  IF ~NodeTruthy(node) THEN rest
             ELSE IF node.kind # "obj" THEN rest
             ELSE <<PullRequest(node.number,
                                GetOr(node.additions, 0),
                                GetOr(node.deletions, 0),
                                node.createdAt,
                                node.mergedAt,
                                GetOr(node.state, "unknown"),
                                reviews_given)>> \o rest

(* client.py:139-173: the list stored for the username at batch index j *)
UserPRs(data, j) ==
    LET user_data == DataGet(data, UserAlias(j))
        reviews_data == DataGet(data, ReviewsAlias(j))
    IN  IF user_data = Nothing \/ user_data[1].nodes = Nothing
        THEN <<>>
        ELSE BuildPRs(user_data[1].nodes[1], ReviewsGiven(reviews_data))

(* client.py:133-135: the response check of _process_user_batch *)
InvalidResponse(body) == body.kind \in {"null", "nodata"}

(* client.py:137-173: results starts as {username: []} and the loop over  *)
(* enumerate(batch) assigns results[username] for every index j whose      *)
(* user_j alias has a nodes list.  k is the number of indexes done.        *)
RECURSIVE DemuxLoop(_, _, _)
DemuxLoop(batch, data, k) ==
    IF k = 0 THEN [u \in Range(batch) |-> <<>>]
    ELSE LET before == DemuxLoop(batch, data, k - 1)
             j == k - 1
             user_data == DataGet(data, UserAlias(j))
         IN  IF user_data = Nothing \/ user_data[1].nodes = Nothing
             THEN before
             ELSE [before EXCEPT ![batch[k]] = UserPRs(data, j)]

(* client.py:133-175: what _process_user_batch does with a decoded body.   *)
(* batch is a sequence of usernames; alias j belongs to batch[j + 1].      *)
(* response['data'].get on 'data': null raises AttributeError.             *)
ProcessBody(batch, body) ==
    IF InvalidResponse(body) THEN [exc |-> "ValueError", results |-> <<>>]
    ELSE IF body.kind = "datanull" THEN [exc |-> "AttributeError", results |-> <<>>]
    ELSE [exc |-> "", results |-> DemuxLoop(batch, body.data, Len(batch))]

----------------------------------------------------------------------------
(* models.py: ContributionMetrics; metrics.py: _calculate_metrics *)

\* median_changes is a rational num / den: statistics.median returns the
\* middle value, or the mean of the two middle values
ContributionMetrics(total_prs, median_changes, additions, deletions, reviews_given) ==
    [total_prs |-> total_prs, median_changes |-> median_changes,
     total_additions |-> additions, total_deletions |-> deletions,
     reviews_given |-> reviews_given]

Rat(num, den) == [num |-> num, den |-> den]

EmptyMetrics == ContributionMetrics(0, Rat(0, 1), 0, 0, 0)

\* MultipliedChanges with a fault: the median is multiplied by the total of additions
MultipliedByAdditions(m) ==
    Rat(m.median_changes.num * m.total_additions, m.median_changes.den)

\* models.py:24-27: multiplied_changes, computed on read
MultipliedChanges(m) ==
    Rat(m.median_changes.num * m.total_prs, m.median_changes.den)

RECURSIVE Insert(_, _)
Insert(x, s) ==
    IF s = <<>> THEN <<x>>
    ELSE IF x <= Head(s) THEN <<x>> \o s
    ELSE <<Head(s)>> \o Insert(x, Tail(s))

RECURSIVE Sorted(_)
Sorted(s) == IF s = <<>> THEN <<>> ELSE Insert(Head(s), Sorted(Tail(s)))

\* Median with a fault: the mean
Mean(data) == Rat(SumSeq(data), Len(data))

\* statistics.median of a non-empty list
Median(data) ==
    LET d == Sorted(data)
        n == Len(d)
    IN  IF n % 2 = 1 THEN Rat(d[(n \div 2) + 1], 1)
        ELSE IF (d[n \div 2] + d[(n \div 2) + 1]) % 2 = 0
             THEN Rat((d[n \div 2] + d[(n \div 2) + 1]) \div 2, 1)
             ELSE Rat(d[n \div 2] + d[(n \div 2) + 1], 2)

\* FirstReviewsGiven with a fault: the reviews are summed over the PRs
SumOfReviewsGiven(prs) == SumSeq([k \in DOMAIN prs |-> prs[k].reviews_given])

\* metrics.py:47
FirstReviewsGiven(prs) == prs[1].reviews_given

CalculateMetrics(prs) ==
    IF prs = <<>> THEN EmptyMetrics
    ELSE ContributionMetrics(
             Len(prs),
             Median([k \in DOMAIN prs |-> prs[k].additions + prs[k].deletions]),
             SumSeq([k \in DOMAIN prs |-> prs[k].additions]),
             SumSeq([k \in DOMAIN prs |-> prs[k].deletions]),
             FirstReviewsGiven(prs))

\* metrics.py:29-35: one ContributionMetrics per key of the mapping
MetricsOf(all_prs) == [u \in DOMAIN all_prs |-> CalculateMetrics(all_prs[u])]

----------------------------------------------------------------------------
(* functools.lru_cache(maxsize=32): a sequence of [key, value] entries,    *)
(* least recently used first.                                              *)

LruHas(cache, key) == \E k \in DOMAIN cache : cache[k].key = key

LruIndex(cache, key) == CHOOSE k \in DOMAIN cache : cache[k].key = key

LruValue(cache, key) == cache[LruIndex(cache, key)].value

\* LruTouch with a fault: a hit leaves the order as it is
LruKeepOrder(cache, key) == cache

\* a hit moves the entry to the most recently used end
LruTouch(cache, key) ==
    LET k == LruIndex(cache, key)
    IN  SubSeq(cache, 1, k - 1) \o SubSeq(cache, k + 1, Len(cache)) \o <<cache[k]>>

\* LruStore with a fault: the result is stored whether or not the key is present
LruStoreAgain(cache, key, value) == Append(cache, [key |-> key, value |-> value])

\* storing the result of a miss: a key that is present by now is left as it
\* is, a full cache drops its least recently used entry
LruStore(cache, key, value) ==
    IF LruHas(cache, key) THEN cache
    ELSE IF Len(cache) >= LruMaxSize
         THEN Tail(cache) \o <<[key |-> key, value |-> value]>>
         ELSE Append(cache, [key |-> key, value |-> value])

\* UsersKey with a fault: the key ignores the order of the usernames
UsersKeyUnordered(usernames, org, days) == <<Range(usernames), org, days>>

\* the positional arguments of the call are the cache key (client.py:67-68)
UsersKey(usernames, org, days) == <<usernames, org, days>>

LruImpls == {"C", "Python"}

(* client.py:12-23 and :242-245: functools.wraps copies the __dict__ of    *)
(* the lru_cache wrapper to timer's wrapper.  The C lru_cache keeps        *)
(* cache_clear on its type, so the timed method has no cache_clear; the    *)
(* pure-Python lru_cache keeps it in __dict__, so the timed method has it. *)
TimerHasCacheClear(i) == i = "Python"

----------------------------------------------------------------------------
(* Frames *)

IdleFrame ==
    [pc |-> "idle", fn |-> "", usernames |-> <<>>, org |-> "", days |-> 0,
     i |-> 0, results |-> <<>>, xp |-> 0, xg |-> 0, waitP |-> 0, waitG |-> 0,
     members |-> <<>>, cursor |-> Nothing, ret |-> <<>>, exc |-> "",
     \* history of the call in progress
     hit |-> FALSE,      \* served from the lru_cache
     overlapped |-> FALSE, \* another thread was running the same call when this one began
     posts |-> 0,        \* HTTP POSTs issued by this call
     bposts |-> 0,       \* ... for the current batch
     gposts |-> 0,       \* ... by the current _post_graphql invocation
     gsleeps |-> 0,      \* backoff sleeps of the current _post_graphql invocation
     prevG |-> 0,        \* the last completed backoff wait of that invocation
     gerr |-> "",        \* the exception of its latest failed attempt
     bsleeps |-> 0,      \* inter-batch sleeps (client.py:83) of this call
     merged |-> 0,       \* batches whose results were merged (client.py:80)
     sent |-> <<>>,      \* the batches a query was built for, in order
     cursors |-> <<>>,   \* the cursor of every request of get_org_members
     pages |-> <<>>,     \* the pages received by get_org_members
     dataless |-> 0,     \* the number of the POST whose response carried no data, if any
     \* locals of the REST paths
     repo |-> "",        \* the repository argument of get_pull_requests
     page |-> 0,         \* the page number of the next listing request
     repos |-> {},       \* get_user_contributed_repos: the set repos
     prs |-> <<>>,       \* get_pull_requests: the list prs
     recent |-> 0,       \* ... len(recent_prs) of the page being processed
     done |-> 0,         \* ... the PRs of that page whose details were looked up
     \* history of the REST call in progress
     gets |-> 0,         \* HTTP GETs issued by this call
     req |-> "",         \* the kind of the latest request: "list" or "detail"
     status |-> 0,       \* the HTTP status of the latest response, 0: none received
     resp |-> <<>>]      \* the latest 2xx response of a listing request, if any

NoLast ==
    [fn |-> "", key |-> <<>>, ok |-> FALSE, ret |-> <<>>, metrics |-> <<>>, exc |-> "",
     seen |-> {},
     keep |-> FALSE,     \* the caller keeps a log of its successful calls
     uses |-> <<>>]      \* that log: the keys of the successful calls, in order

\* BatchAt with a fault: the slice runs one element too far
BatchAtOneTooFar(usernames, i) == Slice(usernames, i, BATCH_SIZE + 1)

\* the batch of the current loop iteration (client.py:76)
BatchAt(usernames, i) == Slice(usernames, i, BATCH_SIZE)
CurrentBatch(f) == BatchAt(f.usernames, f.i)

\* Wait with a fault: the backoff grows linearly
WaitLinear(x, jitter) == BackoffInSeconds * (x + 1) * JitterSteps + jitter

(* client.py:37-38: wait = backoff_in_seconds * 2 ** x + random.uniform(0, 1), *)
(* in units of 1 / JitterSteps seconds; jitter is in 0 .. JitterSteps - 1      *)
Wait(x, jitter) == BackoffInSeconds * Pow2(x) * JitterSteps + jitter
Jitters == 0 .. (JitterSteps - 1)

\* Exhausted with a fault: one retry too many
ExhaustedOneLate(x) == x = Retries + 1

\* Exhausted with a fault: the wrapper never gives up
ExhaustedNever(x) == FALSE

\* client.py:35: the wrapper re-raises when x == retries
Exhausted(x) == x = Retries

\* _post_graphql is entered anew: x = 0 (client.py:30)
EnterPostGraphql(f) ==
    [f EXCEPT !.pc = "post", !.xg = 0, !.waitG = 0, !.prevG = 0,
              !.gposts = 0, !.gsleeps = 0, !.gerr = ""]

\* _process_user_batch is called for the batch at f.i (client.py:76-79)
EnterBatch(f) ==
    EnterPostGraphql([f EXCEPT !.xp = 0, !.waitP = 0, !.bposts = 0,
                               !.sent = Append(f.sent, CurrentBatch(f))])

\* Raise with a fault: the exception is swallowed and the results so far are returned
ReturnPartial(f, e) == [f EXCEPT !.pc = "returned", !.ret = f.results]

\* the exception leaves the call (timer and lru_cache let it pass)
Raise(f, e) == [f EXCEPT !.pc = "raised", !.exc = e]

(* client.py:29-44 around _process_user_batch: an exception of the body    *)
(* is re-raised when xp == retries, else the wrapper sleeps and retries    *)
BatchAttemptFailed(f, e, jitter) ==
    IF Exhausted(f.xp) THEN Raise(f, e)
    ELSE [f EXCEPT !.pc = "sleepP", !.waitP = Wait(f.xp, jitter)]

(* an exception leaves _post_graphql: get_org_members does not catch it,   *)
(* _process_user_batch's wrapper does                                      *)
PostGraphqlRaised(f, e, jitter) ==
    IF f.fn = "users" THEN BatchAttemptFailed(f, e, jitter) ELSE Raise(f, e)

(* client.py:29-44 around _post_graphql: the POST of this attempt raised e *)
PostAttemptFailed(f, e, jitter) ==
    IF Exhausted(f.xg) THEN PostGraphqlRaised([f EXCEPT !.gerr = e], e, jitter)
    ELSE [f EXCEPT !.pc = "sleepG", !.waitG = Wait(f.xg, jitter), !.gerr = e]

CountPost(f) ==
    [f EXCEPT !.posts = f.posts + 1, !.bposts = f.bposts + 1, !.gposts = f.gposts + 1]

\* dict.update (client.py:80)
Update(results, batch_results) ==
    [u \in DOMAIN results \cup DOMAIN batch_results |->
        IF u \in DOMAIN batch_results THEN batch_results[u] ELSE results[u]]

\* client.py:75: the loop goes on while i < len(usernames)
MoreBatches(f) == f.i < Len(f.usernames)

----------------------------------------------------------------------------
(* What the upstream may answer *)

TransportErrors == {"ConnectionError", "HTTPError"}

\* every alias of the response carries the same value
UniformData(n, user, reviews) ==
    [a \in ({"user", "reviews"} \X (0 .. n - 1)) |->
        IF a[1] = "user" THEN user ELSE reviews]

\* user_j carries NodeB for even j; the aliases of odd j are absent
AlternatingData(n) ==
    [a \in ({"user", "reviews"} \X {j \in 0 .. n - 1 : j % 2 = 0}) |->
        IF a[1] = "reviews" THEN Just(WithNodes(<<>>)) ELSE Just(WithNodes(<<NodeB>>))]

GoodBodies(n) ==
    {Body("data", UniformData(n, Just(WithNodes(<<NodeA>>)),
                                 Just(WithNodes(<<AuthoredReview>>)))),
     Body("data", AlternatingData(n))}

BadBodies == {Body("null", NoAliases), Body("nodata", NoAliases), Body("datanull", NoAliases)}

\* a membership page: the k-th page served holds the members <<k, 1>>, <<k, 2>>, ...
MemberNode(k, idx) == [login |-> <<k, idx>>, url |-> <<k, idx>>, type |-> "User"]
Cursors == {"c1", "c2"}
Page(k, size, hasNextPage, endCursor) ==
    [orgnull |-> FALSE, nodes |-> [idx \in 1 .. size |-> MemberNode(k, idx)],
     hasNextPage |-> hasNextPage, endCursor |-> endCursor]
OrgNullPage == [orgnull |-> TRUE, nodes |-> <<>>, hasNextPage |-> FALSE, endCursor |-> Nothing]

\* the pages the upstream may serve as the k-th page: it reports the end by page MaxPages
PagesAt(k) ==
    {Page(k, size, FALSE, Nothing) : size \in 0 .. MaxPageSize}
    \cup (IF k < MaxPages
          THEN {Page(k, sc[1], TRUE, Just(sc[2])) : sc \in (0 .. MaxPageSize) \X Cursors}
          ELSE {})

----------------------------------------------------------------------------
(* Actions.  t is the calling thread. *)

Set(t, f) == th' = [th EXCEPT ![t] = f]

(* client.py:66-79 / metrics.py:24-27: the call enters timer's wrapper and *)
(* the lru_cache lookup; a hit returns the cached mapping, a miss runs the *)
(* body up to the first POST.                                              *)
StartUsers(usernames, org, days) ==
    [IdleFrame EXCEPT !.fn = "users", !.usernames = usernames, !.org = org, !.days = days,
                      !.results = [u \in {} |-> <<>>]]

\* the call of the frame f is past the cache lookup and has not returned or raised
Running(f) == f.pc \in {"post", "sleepG", "sleepP", "sleepB"}

CallUsers(t, usernames, org, days) ==
    LET key == UsersKey(usernames, org, days)
        f == [StartUsers(usernames, org, days) EXCEPT
                 !.overlapped = \E u \in DOMAIN th \ {t} :
                                    /\ Running(th[u]) /\ th[u].fn = "users"
                                    /\ th[u].usernames = usernames
                                    /\ th[u].org = org /\ th[u].days = days]
    IN  /\ th[t].pc = "idle"
        /\ calls > 0
        /\ calls' = calls - 1
        /\ IF LruHas(lru, key)
           THEN /\ lru' = LruTouch(lru, key)
                /\ Set(t, [f EXCEPT !.pc = "returned", !.hit = TRUE,
                                    !.ret = LruValue(lru, key)])
           ELSE /\ IF MoreBatches(f)
                   THEN /\ Set(t, EnterBatch(f))
                        /\ lru' = lru
                   ELSE /\ Set(t, [f EXCEPT !.pc = "returned", !.ret = f.results])
                        /\ lru' = LruStore(lru, key, f.results)
        /\ UNCHANGED <<mlru, impl, faults, last, dm>>

(* client.py:234-239: requests.post raises, or raise_for_status raises on  *)
(* a non-2xx status                                                        *)
PostFail(t, e, jitter) ==
    /\ th[t].pc = "post"
    /\ faults > 0
    /\ faults' = faults - 1
    /\ Set(t, PostAttemptFailed(CountPost(th[t]), e, jitter))
    /\ UNCHANGED <<lru, mlru, impl, calls, last, dm>>

(* client.py:131-175, :79-80: the POST succeeds, _post_graphql returns the *)
(* decoded body, _process_user_batch demultiplexes it and the caller       *)
(* merges the batch results                                                *)
AfterUsersBody(f, body, jitter) ==
    LET r == ProcessBody(CurrentBatch(f), body)
    IN  IF r.exc # "" THEN BatchAttemptFailed(f, r.exc, jitter)
        ELSE [f EXCEPT !.pc = "sleepB", !.results = Update(f.results, r.results),
                       !.merged = f.merged + 1]

PostOkUsers(t, body, jitter) ==
    /\ th[t].pc = "post"
    /\ th[t].fn = "users"
    /\ body \in BadBodies => faults > 0
    /\ faults' = IF body \in BadBodies THEN faults - 1 ELSE faults
    /\ Set(t, AfterUsersBody(CountPost(th[t]), body, jitter))
    /\ UNCHANGED <<lru, mlru, impl, calls, last, dm>>

(* client.py:43-44 in _post_graphql's wrapper: time.sleep(wait); x += 1 *)
AfterSleepG(f) ==
    [f EXCEPT !.pc = "post", !.xg = f.xg + 1, !.gsleeps = f.gsleeps + 1,
              !.prevG = f.waitG, !.waitG = 0]

SleepG(t) ==
    /\ th[t].pc = "sleepG"
    /\ Set(t, AfterSleepG(th[t]))
    /\ UNCHANGED <<lru, mlru, impl, calls, faults, last, dm>>

(* client.py:43-44 in _process_user_batch's wrapper, then the body again *)
AfterSleepP(f) == EnterPostGraphql([f EXCEPT !.xp = f.xp + 1, !.waitP = 0])

SleepP(t) ==
    /\ th[t].pc = "sleepP"
    /\ Set(t, AfterSleepP(th[t]))
    /\ UNCHANGED <<lru, mlru, impl, calls, faults, last, dm>>

(* client.py:83-85, :75: time.sleep(1) after the batch, then the next      *)
(* batch or the return through lru_cache (which stores the result)         *)
AfterSleepB(f) == [f EXCEPT !.bsleeps = f.bsleeps + 1, !.i = f.i + BATCH_SIZE]

SleepB(t) ==
    LET f == AfterSleepB(th[t])
    IN  /\ th[t].pc = "sleepB"
        /\ IF MoreBatches(f)
           THEN /\ Set(t, EnterBatch(f))
                /\ lru' = lru
           ELSE /\ Set(t, [f EXCEPT !.pc = "returned", !.ret = f.results])
                /\ lru' = LruStore(lru, UsersKey(f.usernames, f.org, f.days), f.results)
        /\ UNCHANGED <<mlru, impl, calls, faults, last, dm>>

(* client.py:177-208: get_org_members enters timer's wrapper and the       *)
(* lru_cache lookup; a miss builds the first request with a null cursor    *)
MembersKey(org) == <<org>>

\* client.py:203-208: the request of one loop iteration carries f.cursor
EnterPageRequest(f) == EnterPostGraphql([f EXCEPT !.cursors = Append(f.cursors, f.cursor)])

CallMembers(t, org) ==
    LET f == [IdleFrame EXCEPT !.fn = "members", !.org = org]
    IN  /\ th[t].pc = "idle"
        /\ calls > 0
        /\ calls' = calls - 1
        /\ IF LruHas(mlru, MembersKey(org))
           THEN /\ mlru' = LruTouch(mlru, MembersKey(org))
                /\ Set(t, [f EXCEPT !.pc = "returned", !.hit = TRUE,
                                    !.ret = LruValue(mlru, MembersKey(org))])
           ELSE /\ mlru' = mlru
                /\ Set(t, EnterPageRequest(f))
        /\ UNCHANGED <<lru, impl, faults, last, dm>>

\* client.py:217-221
MemberOf(node) == [login |-> node.login, url |-> node.url, type |-> node.type]
Extend(members, nodes) == members \o [k \in DOMAIN nodes |-> MemberOf(nodes[k])]

\* NextCursor with a fault: the cursor is never advanced
NextCursorStale(f, page) == f.cursor

\* client.py:226
NextCursor(f, page) == page.endCursor

\* AfterMembersBody with a fault: a response without data is retried with backoff
AfterMembersBodyRetrying(f, body) ==
    IF body.kind # "data" THEN PostAttemptFailed([f EXCEPT !.dataless = f.posts], "Exit", 0)
    ELSE IF body.data.orgnull THEN Raise(f, "TypeError")
    ELSE LET g == [f EXCEPT !.members = Extend(f.members, body.data.nodes),
                            !.pages = Append(f.pages, body.data)]
         IN  IF ~body.data.hasNextPage
             THEN [g EXCEPT !.pc = "returned", !.ret = g.members]
             ELSE EnterPageRequest([g EXCEPT !.cursor = NextCursor(g, body.data)])

(* client.py:210-228: what one loop iteration does with the decoded body.  *)
(* None.get raises AttributeError; a body without 'data', or with a null   *)
(* or empty 'data', raises typer.Exit                                      *)
AfterMembersBody(f, body) ==
    IF body.kind = "null" THEN Raise([f EXCEPT !.dataless = f.posts], "AttributeError")
    ELSE IF body.kind # "data" THEN Raise([f EXCEPT !.dataless = f.posts], "Exit")
    ELSE IF body.data.orgnull THEN Raise(f, "TypeError")
    ELSE LET g == [f EXCEPT !.members = Extend(f.members, body.data.nodes),
                            !.pages = Append(f.pages, body.data)]
         IN  IF ~body.data.hasNextPage
             THEN [g EXCEPT !.pc = "returned", !.ret = g.members]
             ELSE EnterPageRequest([g EXCEPT !.cursor = NextCursor(g, body.data)])

MemberBodies(f) ==
    BadBodies \cup {Body("data", OrgNullPage)}
    \cup {Body("data", pg) : pg \in PagesAt(Len(f.pages) + 1)}

PostOkMembers(t, body) ==
    LET f == AfterMembersBody(CountPost(th[t]), body)
    IN  /\ th[t].pc = "post"
        /\ th[t].fn = "members"
        /\ Set(t, f)
        /\ mlru' = IF f.pc = "returned" THEN LruStore(mlru, MembersKey(f.org), f.ret)
                   ELSE mlru
        /\ UNCHANGED <<lru, impl, calls, faults, last, dm>>

(* client.py:242-245: clear_cache.  Line 244 raises AttributeError when    *)
(* the timed method has no cache_clear, and then nothing is cleared.       *)
ClearCache(t) ==
    /\ th[t].pc = "idle"
    /\ calls > 0
    /\ calls' = calls - 1
    /\ IF TimerHasCacheClear(impl)
       THEN /\ mlru' = <<>>
            /\ lru' = <<>>
            /\ last' = [NoLast EXCEPT !.fn = "clear_cache", !.ok = TRUE,
                                      !.keep = last.keep]
       ELSE /\ UNCHANGED <<lru, mlru>>
            /\ last' = [NoLast EXCEPT !.fn = "clear_cache", !.exc = "AttributeError",
                                      !.seen = last.seen, !.keep = last.keep,
                                      !.uses = last.uses]
    /\ UNCHANGED <<th, impl, faults, dm>>

\* the function and the arguments of the call in progress (history)
FrameKey(f) ==
    IF f.fn = "users" THEN <<"users", <<f.usernames, f.org, f.days>>>>
    ELSE <<"members", <<f.org>>>>

(* metrics.py:29-35, cli.py: the caller takes the result (and computes the *)
(* metrics of every user) or the exception; the thread is idle again       *)
Return(t) ==
    LET f == th[t]
        ok == f.pc = "returned"
    IN  /\ f.pc \in {"returned", "raised"}
        /\ last' = [fn |-> f.fn, key |-> FrameKey(f), ok |-> ok, ret |-> f.ret,
                    metrics |-> IF ok /\ f.fn = "users" THEN MetricsOf(f.ret) ELSE <<>>,
                    exc |-> f.exc,
                    seen |-> IF ok /\ ~f.hit
                             THEN last.seen \cup {[key |-> FrameKey(f), ret |-> f.ret]}
                             ELSE last.seen,
                    keep |-> last.keep,
                    uses |-> IF ok /\ last.keep THEN Append(last.uses, FrameKey(f))
                             ELSE last.uses]
        /\ Set(t, IdleFrame)
        /\ UNCHANGED <<lru, mlru, impl, calls, faults, dm>>

----------------------------------------------------------------------------
(* The REST paths: _get, _is_rate_limited, get_user_contributed_repos and  *)
(* get_pull_requests                                                       *)

(* An HTTP response: its status, its X-RateLimit-Remaining header (Nothing *)
(* when the header is absent) and its decoded JSON body                    *)
Response(status, remaining, json) ==
    [status |-> status, headers |-> [remaining |-> remaining], json |-> json]

\* client.py:333: raise_for_status raises HTTPError for a 4xx or 5xx status
RaisesForStatus(response) == response.status >= 400

\* client.py:334: _get returns the decoded body; the headers stay behind
GetResult(response) == response.json

(* client.py:336-343: _is_rate_limited reads response.headers.  Its        *)
(* argument is a requests.Response by its annotation; a decoded body is a  *)
(* dict or a list and has no attribute headers.                            *)
IsRateLimited(response) ==
    IF "headers" \notin DOMAIN response
    THEN [exc |-> "AttributeError", value |-> FALSE]
    ELSE [exc |-> "",
          value |-> /\ response.headers.remaining # Nothing
                    /\ response.headers.remaining[1] < RateLimitFloor]

\* a page of /search/issues: size items of two repositories
SearchPage(size) == [items |-> [k \in 1 .. size |-> <<"acme", k % 2>>]]

\* client.py:268-270: the repository names of the items are added to repos
AddRepos(repos, items) == repos \cup Range(items)

\* a page of /repos/{repo}/pulls: size PRs, the first recent of them created
\* after the cutoff date; the PR of index k on page p has the number <<p, k>>
PullsPage(p, size, recent) ==
    [k \in 1 .. size |-> [number |-> <<p, k>>, recent |-> k <= recent]]

\* client.py:304-307
RecentPRs(response) == SelectSeq(response, LAMBDA pr : pr.recent)

\* the body of /repos/{repo}/pulls/{number}
PullDetails(number) ==
    [number |-> number, additions |-> 5, deletions |-> 2, created_at |-> "t1"]

\* client.py:315-320: the other fields take the defaults of the dataclass
PullRequestOfDetails(d) ==
    PullRequest(Just(d.number), d.additions, d.deletions, Just(d.created_at), Nothing, "open", 0)

RemainingValues == {Nothing, Just(5), Just(9), Just(10), Just(50)}

\* the upstream serves at most MaxRestPages full pages, then a shorter one
PageSizes(page) == {0, 1, PER_PAGE - 1} \cup (IF page <= MaxRestPages THEN {PER_PAGE} ELSE {})

StartRest(fn, username, org, repo, days) ==
    [IdleFrame EXCEPT !.fn = fn, !.usernames = <<username>>, !.org = org, !.repo = repo,
                      !.days = days, !.page = 1, !.pc = "get", !.req = "list"]

(* client.py:247-263: get_user_contributed_repos up to its first GET *)
CallRepos(t, username, org, days) ==
    /\ th[t].pc = "idle"
    /\ calls > 0
    /\ calls' = calls - 1
    /\ Set(t, StartRest("repos", username, org, "", days))
    /\ UNCHANGED <<lru, mlru, impl, faults, last, dm>>

(* client.py:279-295: get_pull_requests up to its first GET *)
CallPulls(t, username, repo, days) ==
    /\ th[t].pc = "idle"
    /\ calls > 0
    /\ calls' = calls - 1
    /\ Set(t, StartRest("pulls", username, "", repo, days))
    /\ UNCHANGED <<lru, mlru, impl, faults, last, dm>>

CountGet(f, status) == [f EXCEPT !.gets = f.gets + 1, !.status = status]

(* client.py:265-277: the rest of one loop iteration of                    *)
(* get_user_contributed_repos, given the value _get returned               *)
AfterReposPage(f, response) ==
    LET items == response.items
        g == [f EXCEPT !.repos = AddRepos(f.repos, items)]
        limited == IsRateLimited(response)
    IN  IF items = <<>> THEN [f EXCEPT !.pc = "returned", !.ret = f.repos]
        ELSE IF Len(items) < PER_PAGE THEN [g EXCEPT !.pc = "returned", !.ret = g.repos]
        ELSE IF limited.exc # "" THEN Raise(g, limited.exc)
        ELSE IF limited.value THEN [g EXCEPT !.pc = "returned", !.ret = g.repos]
        ELSE [g EXCEPT !.page = g.page + 1]

GetOkRepos(t, response) ==
    /\ th[t].pc = "get"
    /\ th[t].fn = "repos"
    /\ ~RaisesForStatus(response)
    /\ Set(t, AfterReposPage([CountGet(th[t], response.status) EXCEPT !.resp = <<response>>],
                             GetResult(response)))
    /\ UNCHANGED <<lru, mlru, impl, calls, faults, last, dm>>

(* client.py:322-327: the end of one loop iteration of get_pull_requests *)
AfterPullsPage(f) ==
    IF f.recent < PER_PAGE THEN [f EXCEPT !.pc = "returned", !.ret = f.prs]
    ELSE [f EXCEPT !.pc = "get", !.req = "list", !.page = f.page + 1]

(* client.py:301-310: the listing of one page was received *)
AfterPullsListing(f, response) ==
    LET recent_prs == RecentPRs(response)
    IN  IF response = <<>> \/ recent_prs = <<>>
        THEN [f EXCEPT !.pc = "returned", !.ret = f.prs]
        ELSE [f EXCEPT !.pc = "get", !.req = "detail", !.resp = <<response>>,
                       !.recent = Len(recent_prs), !.done = 0]

(* client.py:312-320: the details of the next recent PR were received; a   *)
(* falsy body adds no PullRequest                                          *)
AfterPullDetails(f, pr_details) ==
    LET g == [f EXCEPT !.done = f.done + 1,
                       !.prs = IF pr_details = Nothing THEN f.prs
                               ELSE Append(f.prs, PullRequestOfDetails(pr_details[1]))]
    IN  IF g.done < g.recent THEN g ELSE AfterPullsPage(g)

\* the PR whose details the next request of the frame asks for
NextDetail(f) == RecentPRs(f.resp[1])[f.done + 1]

GetOkPullsListing(t, response) ==
    /\ th[t].pc = "get"
    /\ th[t].fn = "pulls"
    /\ th[t].req = "list"
    /\ ~RaisesForStatus(response)
    /\ Set(t, AfterPullsListing(CountGet(th[t], response.status), GetResult(response)))
    /\ UNCHANGED <<lru, mlru, impl, calls, faults, last, dm>>

GetOkPullDetails(t, empty) ==
    /\ th[t].pc = "get"
    /\ th[t].fn = "pulls"
    /\ th[t].req = "detail"
    /\ empty => faults > 0
    /\ faults' = IF empty THEN faults - 1 ELSE faults
    /\ Set(t, AfterPullDetails(CountGet(th[t], 200),
                               IF empty THEN Nothing
                               ELSE Just(PullDetails(NextDetail(th[t]).number))))
    /\ UNCHANGED <<lru, mlru, impl, calls, last, dm>>

(* client.py:287-299: only the listing request is inside the try; a 404    *)
(* there makes the call return [], every other exception leaves the call   *)
AfterGetRaised(f, e, status) ==
    IF f.fn = "pulls" /\ f.req = "list" /\ e = "HTTPError" /\ status = 404
    THEN [f EXCEPT !.pc = "returned", !.ret = <<>>]
    ELSE Raise(f, e)

\* the statuses for which raise_for_status raises, as the upstream may send them
ErrorStatuses == {403, 404, 500}

(* client.py:332-333: requests.get raises (status 0: no response), or      *)
(* raise_for_status raises HTTPError for the status of the response        *)
GetFail(t, e, status) ==
    /\ th[t].pc = "get"
    /\ faults > 0
    /\ faults' = faults - 1
    /\ (e = "HTTPError") = (status # 0)
    /\ Set(t, AfterGetRaised(CountGet(th[t], status), e, status))
    /\ UNCHANGED <<lru, mlru, impl, calls, last, dm>>

----------------------------------------------------------------------------
(* Spec: one client, one caller, a bounded sequence of calls of            *)
(* get_users_org_contributions, get_org_members and clear_cache            *)

NoDm == [phase |-> "off", batch |-> <<>>, body |-> Body("null", NoAliases),
         results |-> <<>>, metrics |-> <<>>,
         prs |-> <<>>,            \* the argument of _calculate_metrics
         obj |-> EmptyMetrics,    \* a ContributionMetrics object
         assigns |-> 0,           \* assignments made to its fields
         read |-> Nothing]        \* the value the latest read of multiplied_changes gave

ClientKeys ==
    {<<<<1, 2>>, "acme", 7>>, <<<<2, 1>>, "acme", 7>>,
     <<<<1, 2>>, "initech", 7>>, <<<<1, 2>>, "acme", 30>>}
ClientOrgs == {"acme"}

\* the membership pages the upstream serves in Spec: one member per page, at
\* most two pages
ClientMemberBodies(f) ==
    {Body("nodata", NoAliases), Body("data", Page(Len(f.pages) + 1, 1, FALSE, Nothing))}
    \cup (IF f.pages = <<>> THEN {Body("data", Page(1, 1, TRUE, Just("c1")))} ELSE {})

Init ==
    /\ th = [t \in {1} |-> IdleFrame]
    /\ lru = <<>>
    /\ mlru = <<>>
    /\ impl \in LruImpls
    /\ calls = MaxCalls
    /\ faults = ClientFailures
    /\ last = NoLast
    /\ dm = NoDm

Next ==
    \E t \in DOMAIN th :
        \/ \E k \in ClientKeys : CallUsers(t, k[1], k[2], k[3])
        \/ \E org \in ClientOrgs : CallMembers(t, org)
        \/ ClearCache(t)
        \/ \E e \in TransportErrors, j \in Jitters : PostFail(t, e, j)
        \/ \E body \in GoodBodies(Len(CurrentBatch(th[t]))) \cup BadBodies, j \in Jitters :
               PostOkUsers(t, body, j)
        \/ \E body \in ClientMemberBodies(th[t]) : PostOkMembers(t, body)
        \/ SleepG(t)
        \/ SleepP(t)
        \/ SleepB(t)
        \/ Return(t)

Spec == Init /\ [][Next]_vars


----------------------------------------------------------------------------
(* SpecBatch: one call of get_users_contributed_repos_and_prs with the     *)
(* usernames 1 .. n, for every n up to MaxUsers                            *)

Ident(n) == [k \in 1 .. n |-> k]

InitBatch ==
    /\ th = [t \in {1} |-> IdleFrame]
    /\ lru = <<>>
    /\ mlru = <<>>
    /\ impl = "C"
    /\ calls = 1
    /\ faults = BatchFailures
    /\ last = NoLast
    /\ dm = NoDm

NextBatch ==
    \E t \in DOMAIN th :
        \/ \E n \in 1 .. MaxUsers : CallUsers(t, Ident(n), "acme", 7)
        \/ \E e \in TransportErrors, j \in Jitters : PostFail(t, e, j)
        \/ \E body \in GoodBodies(Len(CurrentBatch(th[t]))) \cup BadBodies, j \in Jitters :
               PostOkUsers(t, body, j)
        \/ SleepG(t)
        \/ SleepP(t)
        \/ SleepB(t)
        \/ Return(t)

SpecBatch == InitBatch /\ [][NextBatch]_vars

----------------------------------------------------------------------------
(* SpecRetry: one call of get_users_contributed_repos_and_prs for a single *)
(* batch of two usernames; every POST may fail                             *)

\* the POSTs that two nested retry wrappers can issue for one batch
AllAttempts == (Retries + 1) * (Retries + 1)

InitRetry ==
    /\ th = [t \in {1} |-> IdleFrame]
    /\ lru = <<>>
    /\ mlru = <<>>
    /\ impl = "C"
    /\ calls = 1
    /\ faults = AllAttempts
    /\ last = NoLast
    /\ dm = NoDm

NextRetry ==
    \E t \in DOMAIN th :
        \/ CallUsers(t, <<1, 2>>, "acme", 7)
        \/ \E e \in TransportErrors, j \in Jitters : PostFail(t, e, j)
        \/ \E body \in GoodBodies(Len(CurrentBatch(th[t]))) \cup BadBodies, j \in Jitters :
               PostOkUsers(t, body, j)
        \/ SleepG(t)
        \/ SleepP(t)
        \/ SleepB(t)
        \/ Return(t)

SpecRetry == InitRetry /\ [][NextRetry]_vars

----------------------------------------------------------------------------
(* SpecMembers: one call of get_org_members against an upstream that       *)
(* serves up to MaxPages pages of up to MaxPageSize members                *)

InitMembers ==
    /\ th = [t \in {1} |-> IdleFrame]
    /\ lru = <<>>
    /\ mlru = <<>>
    /\ impl = "C"
    /\ calls = 1
    /\ faults = MaxFailures
    /\ last = NoLast
    /\ dm = NoDm

NextMembers ==
    \E t \in DOMAIN th :
        \/ CallMembers(t, "acme")
        \/ \E e \in TransportErrors, j \in Jitters : PostFail(t, e, j)
        \/ \E body \in MemberBodies(th[t]) : PostOkMembers(t, body)
        \/ SleepG(t)
        \/ Return(t)

SpecMembers == InitMembers /\ [][NextMembers]_vars

----------------------------------------------------------------------------
(* SpecDemux: _process_user_batch's demultiplexing and _calculate_metrics  *)
(* applied to every response for a batch of two usernames that holds at    *)
(* most MaxPRNodes pull-request nodes and MaxReviewNodes review nodes       *)

Lists(S, k) == UNION {[1 .. m -> S] : m \in 0 .. k}

\* the values an alias may carry, with at most k nodes
AliasValues(S, k) ==
    {Nothing, Just(NoNodes)} \cup {Just(WithNodes(ns)) : ns \in Lists(S, k)}

NodesIn(v) == IF v = Nothing \/ v[1].nodes = Nothing THEN 0 ELSE Len(v[1].nodes[1])

DemuxBatches == {<<1, 2>>}

DataOf(u0, r0, u1, r1) ==
    [a \in ({"user", "reviews"} \X {0, 1}) |->
        IF a = UserAlias(0) THEN u0
        ELSE IF a = ReviewsAlias(0) THEN r0
        ELSE IF a = UserAlias(1) THEN u1
        ELSE r1]

InitDemux ==
    /\ th = [t \in {1} |-> IdleFrame]
    /\ lru = <<>>
    /\ mlru = <<>>
    /\ impl = "C"
    /\ calls = 0
    /\ faults = 0
    /\ last = NoLast
    /\ \E batch \in DemuxBatches :
         \/ \E body \in BadBodies :
              dm = [NoDm EXCEPT !.phase = "in", !.batch = batch, !.body = body]
         \/ \E u0 \in AliasValues(PRNodeShapes, MaxPRNodes) :
            \E u1 \in AliasValues(PRNodeShapes, MaxPRNodes - NodesIn(u0)) :
            \E r0 \in AliasValues(ReviewNodeShapes, MaxReviewNodes) :
            \E r1 \in AliasValues(ReviewNodeShapes, MaxReviewNodes - NodesIn(r0)) :
              dm = [NoDm EXCEPT !.phase = "in", !.batch = batch,
                                !.body = Body("data", DataOf(u0, r0, u1, r1))]

(* client.py:133-175 and metrics.py:29-35 on the response of one batch *)
Demultiplex ==
    LET r == ProcessBody(dm.batch, dm.body)
    IN  /\ dm.phase = "in"
        /\ dm' = [dm EXCEPT !.phase = IF r.exc = "" THEN "out" ELSE "raised",
                            !.results = r.results,
                            !.metrics = IF r.exc = "" THEN MetricsOf(r.results) ELSE <<>>]
        /\ UNCHANGED <<th, lru, mlru, impl, calls, faults, last>>

NextDemux == Demultiplex

SpecDemux == InitDemux /\ [][NextDemux]_vars


----------------------------------------------------------------------------
(* SpecMetrics: _calculate_metrics applied to every list of at most MaxPRs *)
(* pull requests, then reassignments of the fields of the returned object  *)
(* and reads of its multiplied_changes property                            *)

\* pull requests as the client builds them: (additions, deletions, state)
PRValues ==
    {<<5, 2, "OPEN">>, <<3, 1, "MERGED">>, <<8, 2, "CLOSED">>,
     <<15, 5, "OPEN">>, <<20, 10, "MERGED">>, <<30, 10, "CLOSED">>}

PROf(v) == PullRequest(Just(1), v[1], v[2], Just("t1"), Nothing, v[3], 0)

\* the values a caller may assign to a field of a ContributionMetrics
FieldValues ==
    [total_prs : {0, 3}, median_changes : {Rat(0, 1), Rat(7, 2)}]

InitMetrics ==
    /\ th = [t \in {1} |-> IdleFrame]
    /\ lru = <<>>
    /\ mlru = <<>>
    /\ impl = "C"
    /\ calls = 0
    /\ faults = 0
    /\ last = NoLast
    /\ \E vs \in Lists(PRValues, MaxPRs) :
         dm = [NoDm EXCEPT !.phase = "prs", !.prs = [k \in DOMAIN vs |-> PROf(vs[k])]]

(* metrics.py:37-55 *)
Calculate ==
    /\ dm.phase = "prs"
    /\ dm' = [dm EXCEPT !.phase = "obj", !.obj = CalculateMetrics(dm.prs)]
    /\ UNCHANGED <<th, lru, mlru, impl, calls, faults, last>>

(* models.py:15-21: the dataclass is not frozen, a caller may assign to a  *)
(* field of the object                                                     *)
Assign(field, value) ==
    /\ dm.phase = "obj"
    /\ dm.assigns < MaxAssigns
    /\ dm' = [dm EXCEPT !.obj = [dm.obj EXCEPT ![field] = value],
                        !.assigns = dm.assigns + 1, !.read = Nothing]
    /\ UNCHANGED <<th, lru, mlru, impl, calls, faults, last>>

(* models.py:23-26: a read of the property multiplied_changes *)
ReadMultipliedChanges ==
    /\ dm.phase = "obj"
    /\ dm' = [dm EXCEPT !.read = Just(MultipliedChanges(dm.obj))]
    /\ UNCHANGED <<th, lru, mlru, impl, calls, faults, last>>

NextMetrics ==
    \/ Calculate
    \/ \E v \in FieldValues :
          \/ Assign("total_prs", v.total_prs)
          \/ Assign("median_changes", v.median_changes)
    \/ ReadMultipliedChanges

SpecMetrics == InitMetrics /\ [][NextMetrics]_vars

----------------------------------------------------------------------------
(* SpecRest: one call of get_user_contributed_repos or get_pull_requests   *)
(* against an upstream that serves at most MaxRestPages full pages         *)

InitRest ==
    /\ th = [t \in {1} |-> IdleFrame]
    /\ lru = <<>>
    /\ mlru = <<>>
    /\ impl = "C"
    /\ calls = 1
    /\ faults = RestFailures
    /\ last = NoLast
    /\ dm = NoDm

NextRest ==
    \E t \in DOMAIN th :
        \/ CallRepos(t, 1, "acme", 7)
        \/ CallPulls(t, 1, "acme/api", 7)
        \/ \E size \in PageSizes(th[t].page), remaining \in RemainingValues :
               GetOkRepos(t, Response(200, remaining, SearchPage(size)))
        \/ \E size \in PageSizes(th[t].page), remaining \in RemainingValues :
           \E recent \in {0, 1, size} :
               /\ recent <= size
               /\ GetOkPullsListing(t, Response(200, remaining,
                                                PullsPage(th[t].page, size, recent)))
        \/ \E empty \in BOOLEAN : GetOkPullDetails(t, empty)
        \/ \E status \in ErrorStatuses : GetFail(t, "HTTPError", status)
        \/ GetFail(t, "ConnectionError", 0)
        \/ Return(t)

SpecRest == InitRest /\ [][NextRest]_vars

----------------------------------------------------------------------------
(* SpecLru: one caller fetches one username for the windows of 1, 2, ...   *)
(* up to MaxKeys days, so that every call has a new cache key, and repeats *)
(* up to MaxRepeats earlier calls once the cache is about to fill up; the  *)
(* upstream always answers                                                 *)

DistinctUses == Cardinality(Range(last.uses))

\* the windows the caller may ask for next: the next new one, or a repeat of
\* one of the three oldest or of the newest
DaysToCall ==
    (IF DistinctUses < MaxKeys THEN {DistinctUses + 1} ELSE {})
    \cup (IF /\ DistinctUses >= LruMaxSize - 1
              /\ Len(last.uses) - DistinctUses < MaxRepeats
           THEN {1, 2, 3, DistinctUses}
           ELSE {})

InitLru ==
    /\ th = [t \in {1} |-> IdleFrame]
    /\ lru = <<>>
    /\ mlru = <<>>
    /\ impl = "C"
    /\ calls = MaxKeys + MaxRepeats
    /\ faults = 0
    /\ last = [NoLast EXCEPT !.keep = TRUE]
    /\ dm = NoDm

NextLru ==
    \E t \in DOMAIN th :
        \/ \E days \in DaysToCall : CallUsers(t, <<1>>, "acme", days)
        \/ PostOkUsers(t, Body("data", UniformData(1, Just(WithNodes(<<NodeA>>)), Nothing)), 0)
        \/ SleepB(t)
        \/ Return(t)

SpecLru == InitLru /\ [][NextLru]_vars

----------------------------------------------------------------------------
(* SpecConc: two threads share one client; two calls of                    *)
(* get_users_contributed_repos_and_prs with the same arguments are made,   *)
(* by the same thread or by both.  A thread is suspended only in           *)
(* requests.post and time.sleep, where the interpreter lets the other run. *)

Threads == {1, 2}

InitConc ==
    /\ th = [t \in Threads |-> IdleFrame]
    /\ lru = <<>>
    /\ mlru = <<>>
    /\ impl = "C"
    /\ calls = Cardinality(Threads)
    /\ faults = ClientFailures
    /\ last = NoLast
    /\ dm = NoDm

NextConc ==
    \E t \in DOMAIN th :
        \/ CallUsers(t, <<1, 2>>, "acme", 7)
        \/ \E e \in TransportErrors, j \in Jitters : PostFail(t, e, j)
        \/ \E body \in GoodBodies(Len(CurrentBatch(th[t]))) \cup BadBodies, j \in Jitters :
               PostOkUsers(t, body, j)
        \/ SleepG(t)
        \/ SleepP(t)
        \/ SleepB(t)
        \/ Return(t)

SpecConc == InitConc /\ [][NextConc]_vars

----------------------------------------------------------------------------
(* SpecAlias: _process_user_batch's demultiplexing of every response for a *)
(* batch of two usernames, different or the same one twice, whose aliases  *)
(* hold at most MaxPRNodes pull-request nodes and MaxReviewNodes review    *)
(* nodes                                                                   *)

AliasBatches == {<<1, 2>>, <<1, 1>>}

AliasPRNodes == {NullNode, NodeA, NodeB}
AliasReviewNodes == {[EmptyNode EXCEPT !.number = Just(7)], AuthoredReview}

\* response['data'] with the values of the aliases user_0, reviews_0, user_1, reviews_1
AliasData(u0, r0, u1, r1) ==
    [a \in ({"user", "reviews"} \X {0, 1}) |->
        IF a = <<"user", 0>> THEN u0
        ELSE IF a = <<"reviews", 0>> THEN r0
        ELSE IF a = <<"user", 1>> THEN u1
        ELSE r1]

InitAlias ==
    /\ th = [t \in {1} |-> IdleFrame]
    /\ lru = <<>>
    /\ mlru = <<>>
    /\ impl = "C"
    /\ calls = 0
    /\ faults = 0
    /\ last = NoLast
    /\ \E batch \in AliasBatches :
       \E u0 \in AliasValues(AliasPRNodes, MaxPRNodes) :
       \E u1 \in AliasValues(AliasPRNodes, MaxPRNodes - NodesIn(u0)) :
       \E r0 \in AliasValues(AliasReviewNodes, MaxReviewNodes) :
       \E r1 \in AliasValues(AliasReviewNodes, MaxReviewNodes - NodesIn(r0)) :
          dm = [NoDm EXCEPT !.phase = "in", !.batch = batch,
                            !.body = Body("data", AliasData(u0, r0, u1, r1))]

NextAlias == Demultiplex

SpecAlias == InitAlias /\ [][NextAlias]_vars

----------------------------------------------------------------------------
(* SpecExhaust: two calls of get_users_contributed_repos_and_prs with the  *)
(* same BATCH_SIZE + 1 usernames, two batches each; the upstream may fail  *)
(* often enough to exhaust the retries of one batch, by an HTTP error      *)
(* status or by a body without data                                        *)

InitExhaust ==
    /\ th = [t \in {1} |-> IdleFrame]
    /\ lru = <<>>
    /\ mlru = <<>>
    /\ impl = "C"
    /\ calls = 2
    /\ faults = AllAttempts
    /\ last = NoLast
    /\ dm = NoDm

NextExhaust ==
    \E t \in DOMAIN th :
        \/ CallUsers(t, Ident(BATCH_SIZE + 1), "acme", 7)
        \/ PostFail(t, "HTTPError", 0)
        \/ \E body \in GoodBodies(Len(CurrentBatch(th[t]))) \cup {Body("nodata", NoAliases)} :
               PostOkUsers(t, body, 0)
        \/ SleepG(t)
        \/ SleepP(t)
        \/ SleepB(t)
        \/ Return(t)

SpecExhaust == InitExhaust /\ [][NextExhaust]_vars

----------------------------------------------------------------------------
(* SpecLive: one call of get_users_contributed_repos_and_prs (one or two   *)
(* batches) or of get_org_members, against an upstream that may fail or    *)
(* succeed at every POST.  For the organisation "acme" the upstream        *)
(* reports the last page by page MaxPages; for "endless" every page        *)
(* reports hasNextPage = true, and the model follows MaxLoopPages of them. *)
(* Every POST is answered and every sleep ends: the steps of a call in     *)
(* progress are weakly fair.                                               *)

\* the pages hold one member each; a body may also lack its data
LiveMemberBodies(f) ==
    LET k == Len(f.pages) + 1
    IN  IF f.org = "endless"
        THEN (IF k <= MaxLoopPages THEN {Body("data", Page(k, 1, TRUE, Just("c1")))} ELSE {})
        ELSE {Body("nodata", NoAliases), Body("data", Page(k, 1, FALSE, Nothing))}
             \cup (IF k < MaxPages THEN {Body("data", Page(k, 1, TRUE, Just("c1")))} ELSE {})

InitLive ==
    /\ th = [t \in {1} |-> IdleFrame]
    /\ lru = <<>>
    /\ mlru = <<>>
    /\ impl = "C"
    /\ calls = 1
    /\ faults = 2 * AllAttempts
    /\ last = NoLast
    /\ dm = NoDm

StepLive(t) ==
    \/ PostFail(t, "HTTPError", 0)
    \/ \E body \in GoodBodies(Len(CurrentBatch(th[t]))) \cup {Body("nodata", NoAliases)} :
           PostOkUsers(t, body, 0)
    \/ \E body \in LiveMemberBodies(th[t]) : PostOkMembers(t, body)
    \/ SleepG(t)
    \/ SleepP(t)
    \/ SleepB(t)
    \/ Return(t)

NextLive ==
    \E t \in DOMAIN th :
        \/ \E n \in {1, BATCH_SIZE + 1} : CallUsers(t, Ident(n), "acme", 7)
        \/ \E org \in {"acme", "endless"} : CallMembers(t, org)
        \/ StepLive(t)

SpecLive == InitLive /\ [][NextLive]_vars /\ WF_vars(\E t \in DOMAIN th : StepLive(t))

----------------------------------------------------------------------------
(* Claims *)

CeilDiv(n, d) == (n + d - 1) \div d

\* the k-th of the consecutive groups of 25 of a tuple
Group25(us, k) ==
    [m \in 1 .. (Min(25 * k, Len(us)) - 25 * (k - 1)) |-> us[25 * (k - 1) + m]]

(* C1: a tuple of n distinct usernames is split into ceil(n/25) consecutive *)
(* batches in input order, each of at most 25 and all but the last of       *)
(* exactly 25; one query is built per batch; when all batches succeed the   *)
(* returned mapping has exactly the n usernames as keys.                    *)
C1_Batching ==
    LET f == th[1]
        n == Len(f.usernames)
        B == CeilDiv(n, 25)
    IN  (f.fn = "users" /\ ~f.hit) =>
            /\ Len(f.sent) <= B
            /\ f.merged <= Len(f.sent)
            /\ \A k \in DOMAIN f.sent :
                 /\ f.sent[k] = Group25(f.usernames, k)
                 /\ Len(f.sent[k]) <= 25
                 /\ k < B => Len(f.sent[k]) = 25
            /\ f.pc = "returned" =>
                 /\ Len(f.sent) = B
                 /\ f.merged = B
                 /\ Flatten(f.sent) = f.usernames
                 /\ DOMAIN f.ret = Range(f.usernames)
                 /\ Cardinality(DOMAIN f.ret) = n

\* 30 usernames were fetched in two batches of 25 and 5
C1_Witness ==
    /\ th[1].pc = "returned"
    /\ Len(th[1].usernames) = 30
    /\ Len(th[1].sent) = 2
    /\ Len(th[1].sent[1]) = 25
    /\ Len(th[1].sent[2]) = 5
    /\ Cardinality(DOMAIN th[1].ret) = 30

(* C2: a call whose key was computed by an earlier successful call on this  *)
(* client (and not cleared since) returns that call's mapping without any   *)
(* HTTP POST; a call whose key differs in any component, the order of the   *)
(* usernames included, from every key computed so far is a miss and issues  *)
(* POSTs.                                                                   *)
C2_CacheHitByExactKey ==
    LET f == th[1]
    IN  (f.fn = "users" /\ f.pc = "returned") =>
            /\ \A e \in last.seen :
                 e.key = FrameKey(f) => (f.hit /\ f.posts = 0 /\ f.ret = e.ret)
            /\ (\A e \in last.seen : e.key # FrameKey(f)) => (~f.hit /\ f.posts >= 1)

\* (1, 2) and (2, 1) were both fetched over the network; (1, 2) is now served again
\* from the cache
C2_Witness ==
    /\ th[1].pc = "returned"
    /\ th[1].hit
    /\ th[1].posts = 0
    /\ th[1].usernames = <<1, 2>>
    /\ \E e \in last.seen : e.key = FrameKey(th[1]) /\ e.ret = th[1].ret
    /\ \E e \in last.seen : e.key = <<"users", <<<<2, 1>>, th[1].org, th[1].days>>>>

(* C3: clear_cache() completes without raising and empties both caches, so  *)
(* the call that follows it issues a new network round trip.                *)
C3_ClearCacheClears ==
    /\ last.fn = "clear_cache" => last.exc = ""
    /\ (last.fn = "clear_cache" /\ th[1].pc = "idle") => (lru = <<>> /\ mlru = <<>>)
    /\ (last.fn = "clear_cache" /\ th[1].pc = "returned") => th[1].posts >= 1

(* C4: one invocation of _post_graphql issues at most 4 POSTs; a failed     *)
(* attempt k <= 3 is followed by a sleep and attempt k + 1; a success ends  *)
(* the invocation; the 4th failure propagates unchanged, with no sleep      *)
(* after it.                                                                *)
C4_PostGraphqlAttempts ==
    LET f == th[1]
    IN  f.fn = "members" =>
            /\ f.gposts <= 4
            /\ f.pc = "post" => (f.gposts <= 3 /\ f.gsleeps = f.gposts)
            /\ f.pc = "sleepG" => (f.gposts <= 3 /\ f.gsleeps = f.gposts - 1)
            /\ (f.pc = "returned" /\ ~f.hit) => f.gsleeps = f.gposts - 1
            /\ (f.pc = "raised" /\ f.exc \in TransportErrors) =>
                   (f.gposts = 4 /\ f.gsleeps = 3 /\ f.exc = f.gerr)
            /\ (f.pc = "raised" /\ f.exc \notin TransportErrors) => f.gsleeps = f.gposts - 1

\* the 4th POST of an invocation failed and its exception reached the caller
C4_Witness ==
    /\ th[1].pc = "raised"
    /\ th[1].exc = "HTTPError"
    /\ th[1].gposts = 4
    /\ th[1].gsleeps = 3

(* C5: the wait before retry x (x = 0, 1, 2) lies in [2^x, 2^x + 1) seconds *)
(* and the waits of one call are non-decreasing; a call that fails twice    *)
(* and then succeeds returns after exactly two waits.  Waits are counted in *)
(* units of 1 / JitterSteps seconds.                                        *)
C5_BackoffWaits ==
    LET f == th[1]
        lower == <<1, 2, 4>>
    IN  f.fn = "members" =>
            /\ f.pc = "sleepG" =>
                 /\ f.gsleeps \in 0 .. 2
                 /\ f.waitG >= lower[f.gsleeps + 1] * JitterSteps
                 /\ f.waitG < (lower[f.gsleeps + 1] + 1) * JitterSteps
                 /\ f.prevG <= f.waitG
            /\ (f.pc = "returned" /\ ~f.hit /\ f.gposts = 3) =>
                 /\ f.gsleeps = 2
                 /\ f.prevG >= 2 * JitterSteps
                 /\ f.ret = f.members

\* two attempts failed, the third succeeded and the call returned after two waits
C5_Witness ==
    /\ th[1].pc = "returned"
    /\ th[1].gposts = 3
    /\ th[1].gsleeps = 2
    /\ th[1].prevG >= 2 * JitterSteps
    /\ th[1].prevG < 3 * JitterSteps

(* C6: when every POST of a batch fails, the failure reaches the caller     *)
(* after at most 4 POSTs for that batch.                                    *)
C6_BatchRetryBudget ==
    th[1].fn = "users" => th[1].bposts <= 4

(* C7: a successful call that processes B batches performs the inter-batch  *)
(* sleep exactly B - 1 times, never after the last batch.                   *)
C7_SleepOnlyBetweenBatches ==
    (th[1].fn = "users" /\ th[1].pc = "returned" /\ ~th[1].hit) =>
        th[1].bsleeps = Len(th[1].sent) - 1


\* a PR node that carries every required field
WellFormed(node) ==
    /\ node.kind = "obj"
    /\ node.number # Nothing
    /\ node.additions # Nothing
    /\ node.deletions # Nothing
    /\ node.createdAt # Nothing

\* the nodes of an alias value, none when the alias is absent or has no nodes list
NodesOf(v) == IF v = Nothing \/ v[1].nodes = Nothing THEN <<>> ELSE v[1].nodes[1]

RECURSIVE WellFormedNumbers(_)
WellFormedNumbers(nodes) ==
    IF nodes = <<>> THEN <<>>
    ELSE (IF WellFormed(Head(nodes)) THEN <<Head(nodes).number>> ELSE <<>>)
         \o WellFormedNumbers(Tail(nodes))

(* C8: the PR list of a user holds exactly the well-formed nodes of the     *)
(* user's alias, in order; a node that misses number, additions, deletions  *)
(* or createdAt yields no PullRequest and never aborts the batch.           *)
C8_MalformedNodesSkipped ==
    (dm.phase # "off" /\ dm.body.kind = "data") =>
        /\ dm.phase # "raised"
        /\ dm.phase = "out" =>
             \A j \in 0 .. Len(dm.batch) - 1 :
                LET prs == dm.results[dm.batch[j + 1]]
                IN  [k \in DOMAIN prs |-> prs[k].number]
                        = WellFormedNumbers(NodesOf(DataGet(dm.body.data, UserAlias(j))))

(* C9: get_org_members requests pages until one reports hasNextPage =       *)
(* false; the first request carries a null cursor, every later one the      *)
(* endCursor of the page just received; the result is the concatenation of  *)
(* all pages in request order.                                              *)
C9_Pagination ==
    LET f == th[1]
        np == Len(f.pages)
    IN  (f.fn = "members" /\ ~f.hit) =>
            /\ Len(f.cursors) >= 1
            /\ f.cursors[1] = Nothing
            /\ \A k \in 2 .. Len(f.cursors) : f.cursors[k] = f.pages[k - 1].endCursor
            /\ \A k \in 1 .. np - 1 : f.pages[k].hasNextPage
            /\ f.pc \in {"post", "sleepG"} =>
                 /\ Len(f.cursors) = np + 1
                 /\ \A k \in 1 .. np : f.pages[k].hasNextPage
            /\ f.pc = "returned" =>
                 /\ np >= 1
                 /\ Len(f.cursors) = np
                 /\ ~f.pages[np].hasNextPage
                 /\ f.ret = Flatten([k \in 1 .. np |-> f.pages[k].nodes])
                 /\ Len(f.ret) = SumSeq([k \in 1 .. np |-> Len(f.pages[k].nodes)])

\* three pages of 2, 2 and 1 members were fetched with three different cursors
C9_Witness ==
    /\ th[1].pc = "returned"
    /\ Len(th[1].pages) = 3
    /\ Len(th[1].ret) = 5
    /\ th[1].cursors[1] = Nothing
    /\ th[1].cursors[2] = Just("c1")
    /\ th[1].cursors[3] = Just("c2")

\* the review nodes that are not null and have a non-null author
AuthoredCount(v) ==
    Cardinality({k \in DOMAIN NodesOf(v) :
                    NodesOf(v)[k].kind # "null" /\ NodesOf(v)[k].author # Nothing})

(* C10: reviewsGiven of user j is the number of non-null nodes of reviews_j *)
(* with a non-null author; every PullRequest of user j carries it; the      *)
(* aggregated reviews_given of a user with PRs is that single value, and 0  *)
(* for a user without PRs.                                                  *)
C10_ReviewsGiven ==
    dm.phase = "out" =>
        \A j \in 0 .. Len(dm.batch) - 1 :
            LET u == dm.batch[j + 1]
                prs == dm.results[u]
                expected == AuthoredCount(DataGet(dm.body.data, ReviewsAlias(j)))
            IN  /\ \A k \in DOMAIN prs : prs[k].reviews_given = expected
                /\ dm.metrics[u].reviews_given = IF prs = <<>> THEN 0 ELSE expected

\* the first user has two PRs and one authored review, the second user has no PR
C10_Witness ==
    /\ dm.phase = "out"
    /\ Len(dm.results[1]) = 2
    /\ dm.results[1][1].reviews_given = 1
    /\ dm.results[1][2].reviews_given = 1
    /\ dm.metrics[1].reviews_given = 1
    /\ dm.results[2] = <<>>
    /\ dm.metrics[2].reviews_given = 0

\* the k-th smallest of the values of xs, counting repetitions
KthSmallest(xs, k) ==
    CHOOSE v \in Range(xs) :
        /\ Cardinality({m \in DOMAIN xs : xs[m] < v}) < k
        /\ k <= Cardinality({m \in DOMAIN xs : xs[m] <= v})

\* the rational r equals p / q
RatEq(r, p, q) == r.num * q = p * r.den

\* the sum of xs, from its last element down
RECURSIVE SumTo(_, _)
SumTo(xs, n) == IF n = 0 THEN 0 ELSE SumTo(xs, n - 1) + xs[n]

(* C11: _calculate_metrics returns total_prs = the length of the list,      *)
(* whatever the states of the PRs, total_additions and total_deletions =    *)
(* the sums of the per-PR values, and median_changes = the middle value of  *)
(* additions + deletions for an odd length, the mean of the two middle      *)
(* values for an even length; every field is 0 for the empty list.          *)
C11_CalculateMetrics ==
    LET prs == dm.prs
        n == Len(prs)
        m == dm.obj
        changes == [k \in DOMAIN prs |-> prs[k].additions + prs[k].deletions]
    IN  (dm.phase = "obj" /\ dm.assigns = 0) =>
            /\ m.total_prs = n
            /\ m.total_additions = SumTo([k \in DOMAIN prs |-> prs[k].additions], n)
            /\ m.total_deletions = SumTo([k \in DOMAIN prs |-> prs[k].deletions], n)
            /\ n = 0 => (RatEq(m.median_changes, 0, 1) /\ m.reviews_given = 0)
            /\ (n > 0 /\ n % 2 = 1) =>
                   RatEq(m.median_changes, KthSmallest(changes, (n + 1) \div 2), 1)
            /\ (n > 0 /\ n % 2 = 0) =>
                   RatEq(m.median_changes,
                         KthSmallest(changes, n \div 2) + KthSmallest(changes, (n \div 2) + 1),
                         2)

\* the changes 30, 10, 40, 20 of four PRs in three different states give the median 25
C11_Witness ==
    /\ dm.phase = "obj"
    /\ dm.assigns = 0
    /\ [k \in DOMAIN dm.prs |-> dm.prs[k].additions + dm.prs[k].deletions] = <<30, 10, 40, 20>>
    /\ dm.obj.total_prs = 4
    /\ dm.obj.median_changes = Rat(25, 1)
    /\ dm.obj.total_additions = 73
    /\ dm.obj.total_deletions = 27

(* C12: a read of multiplied_changes gives median_changes * total_prs of    *)
(* the fields as they are at the read, for an object made by                *)
(* _calculate_metrics, by ContributionMetrics.empty() or with reassigned    *)
(* fields.                                                                  *)
C12_MultipliedOnRead ==
    dm.read # Nothing =>
        RatEq(dm.read[1], dm.obj.median_changes.num * dm.obj.total_prs,
              dm.obj.median_changes.den)

\* three PRs with the median 20 had total_prs reassigned to 0, the read then gave 0
C12_Witness ==
    /\ dm.phase = "obj"
    /\ Len(dm.prs) = 3
    /\ dm.assigns = 1
    /\ dm.obj.total_prs = 0
    /\ dm.obj.median_changes = Rat(20, 1)
    /\ dm.read = Just(Rat(0, 1))

(* C13: in get_user_contributed_repos, when a received page is full and the *)
(* rate-limit remaining value of its response is below 10, the call returns *)
(* the repositories collected so far without raising; when remaining is 10  *)
(* or more, or the header is absent, the next page is requested.            *)
C13_RateLimitSoftStop ==
    LET f == th[1]
        response == f.resp[1]
        remaining == response.headers.remaining
    IN  (f.fn = "repos" /\ f.status = 200 /\ Len(response.json.items) = 100) =>
            IF remaining # Nothing /\ remaining[1] < 10
            THEN f.pc = "returned" /\ f.ret = f.repos /\ f.repos # {}
            ELSE f.pc = "get" /\ f.page = f.gets + 1

(* C18: in get_pull_requests, a 404 for any request of the call, the        *)
(* listing of any page or a per-PR detail lookup, makes the call return the *)
(* empty list; any other HTTP error status propagates to the caller.        *)
C18_NotFoundGivesEmptyList ==
    LET f == th[1]
    IN  (f.fn = "pulls" /\ f.status >= 400) =>
            IF f.status = 404
            THEN f.pc = "returned" /\ f.ret = <<>>
            ELSE f.pc = "raised" /\ f.exc = "HTTPError"

\* the position of the last use of key in the log uses, 0 when it was never used
LastUse(uses, key) ==
    IF \E k \in DOMAIN uses : uses[k] = key
    THEN CHOOSE k \in DOMAIN uses : uses[k] = key /\ \A m \in DOMAIN uses : m > k => uses[m] # key
    ELSE 0

\* key is one of the n most recently used distinct keys of the log
AmongMostRecent(uses, key, n) ==
    /\ LastUse(uses, key) > 0
    /\ Cardinality({uses[m] : m \in {k \in DOMAIN uses : k > LastUse(uses, key)}}) < n

(* C14: the cache of get_users_contributed_repos_and_prs never holds more   *)
(* than 32 entries; a call whose key is among the 32 most recently used     *)
(* distinct keys of the earlier successful calls is served without an HTTP  *)
(* POST, a call with any other key, an evicted one included, issues a new   *)
(* round trip.                                                              *)
C14_LruCapacity ==
    LET f == th[1]
        recent == AmongMostRecent(last.uses, FrameKey(f), 32)
    IN  /\ Len(lru) <= 32
        /\ (f.fn = "users" /\ f.pc = "returned") =>
               /\ recent => (f.hit /\ f.posts = 0)
               /\ ~recent => (~f.hit /\ f.posts >= 1)

\* after calls with 33 distinct keys, one of them a repeat that was served from the
\* cache, the key of the first call has been evicted and is fetched again
C14_Witness ==
    /\ th[1].pc = "returned"
    /\ th[1].days = 1
    /\ ~th[1].hit
    /\ th[1].posts >= 1
    /\ Len(lru) = 32
    /\ DistinctUses >= 33
    /\ Len(last.uses) > DistinctUses

(* C15: in get_org_members a response that was received but carries no     *)
(* data ends the call at once with an exception: no POST of the call        *)
(* follows it, no member list is returned, whatever pages came before, and  *)
(* nothing is cached; a transport failure of a request is retried with      *)
(* backoff and reaches the caller only from the 4th attempt.                *)
C15_DatalessIsFatal ==
    LET f == th[1]
    IN  /\ f.fn = "members" =>
               /\ f.dataless > 0 =>
                      /\ f.pc = "raised"
                      /\ f.exc \notin TransportErrors
                      /\ f.posts = f.dataless
                      /\ f.ret = <<>>
                      /\ mlru = <<>>
               /\ f.pc = "sleepG" => (f.gerr \in TransportErrors /\ f.dataless = 0)
               /\ (f.pc = "raised" /\ f.exc \in TransportErrors) => f.gposts = 4
        /\ (last.fn = "members" /\ last.exc \in {"Exit", "AttributeError"}) =>
               (~last.ok /\ last.ret = <<>> /\ mlru = <<>> /\ th[1].pc = "idle")

\* one page of two members was received, the request of the second page failed once
\* and was retried, then its response carried no data: the call raised typer.Exit
C15_Witness ==
    /\ th[1].pc = "raised"
    /\ th[1].exc = "Exit"
    /\ Len(th[1].pages) = 1
    /\ Len(th[1].members) = 2
    /\ th[1].gsleeps = 1
    /\ th[1].posts = 3
    /\ th[1].dataless = 3

\* the entries the users cache holds for the key of the frame f
EntriesFor(f) == {k \in DOMAIN lru : lru[k].key = UsersKey(f.usernames, f.org, f.days)}

(* C16: a call that starts while another call with the same key is in       *)
(* progress is not served from the cache: each of the two issues its own    *)
(* POSTs; each call that returns, returns a mapping of all the usernames,   *)
(* and the cache then holds exactly one entry for the key.                  *)
C16_NoDeduplication ==
    \A t \in DOMAIN th :
        LET f == th[t]
        IN  f.fn = "users" =>
               /\ f.overlapped => (~f.hit /\ f.pc # "idle")
               /\ (f.overlapped /\ f.pc \in {"returned", "raised"}) => f.posts >= 1
               /\ f.pc = "returned" =>
                      /\ DOMAIN f.ret = Range(f.usernames)
                      /\ Cardinality(EntriesFor(f)) = 1

\* both threads fetched the same key over the network, got different answers, and
\* both returned; the cache holds the one entry of the call that returned first
C16_Witness ==
    /\ DOMAIN th = {1, 2}
    /\ th[1].pc = "returned" /\ th[2].pc = "returned"
    /\ FrameKey(th[1]) = FrameKey(th[2])
    /\ ~th[1].hit /\ ~th[2].hit
    /\ th[1].overlapped \/ th[2].overlapped
    /\ th[1].posts >= 1 /\ th[2].posts >= 1
    /\ th[1].ret # th[2].ret
    /\ Len(lru) = 1

\* the alias value has a nodes list
HasNodes(v) == v # Nothing /\ v[1].nodes # Nothing

\* the nodes of a list that are objects with some field
RECURSIVE ObjectNodes(_)
ObjectNodes(nodes) ==
    IF nodes = <<>> THEN <<>>
    ELSE (IF Head(nodes).kind = "obj" /\ Head(nodes) # EmptyNode THEN <<Head(nodes)>> ELSE <<>>)
         \o ObjectNodes(Tail(nodes))

\* prs is the list built from the aliases user_j and reviews_j of data
BuiltFromIndex(prs, data, j) ==
    LET nodes == ObjectNodes(NodesOf(data[<<"user", j>>]))
    IN  /\ Len(prs) = Len(nodes)
        /\ \A k \in DOMAIN prs :
              /\ prs[k].number = nodes[k].number
              /\ prs[k].created_at = nodes[k].createdAt
              /\ prs[k].reviews_given = AuthoredCount(data[<<"reviews", j>>])

(* C17: for the username at position j of a batch, the PR list of the       *)
(* result is built only from the nodes of alias user_j and its review count *)
(* only from alias reviews_j; a username whose alias user_j is absent, null *)
(* or without a nodes list maps to the empty list.                          *)
C17_BatchLocalIndex ==
    dm.phase = "out" =>
        \A j \in 0 .. Len(dm.batch) - 1 :
            LET prs == dm.results[dm.batch[j + 1]]
            IN  IF HasNodes(dm.body.data[<<"user", j>>])
                THEN BuiltFromIndex(prs, dm.body.data, j)
                ELSE prs = <<>>

(* C17 as amended: the list of a username is built from the aliases user_j  *)
(* and reviews_j of the last position j of the username in the batch whose  *)
(* user_j has a nodes list, and is empty when no position of the username   *)
(* has one; for a batch of different usernames that position is the         *)
(* username's own.                                                          *)
C17_LastPositionWithNodes ==
    dm.phase = "out" =>
        \A u \in Range(dm.batch) :
            LET positions == {j \in 0 .. Len(dm.batch) - 1 :
                                 dm.batch[j + 1] = u /\ HasNodes(dm.body.data[<<"user", j>>])}
            IN  IF positions = {} THEN dm.results[u] = <<>>
                ELSE BuiltFromIndex(dm.results[u], dm.body.data,
                                    CHOOSE j \in positions : \A m \in positions : m <= j)

\* two different usernames: the first has PR 1 and one authored review, the second
\* has PR 2 and a review without author
C17_Witness ==
    /\ dm.phase = "out"
    /\ dm.batch = <<1, 2>>
    /\ Len(dm.results[1]) = 1 /\ dm.results[1][1].number = Just(1)
    /\ dm.results[1][1].reviews_given = 1
    /\ Len(dm.results[2]) = 1 /\ dm.results[2][1].number = Just(2)
    /\ dm.results[2][1].reviews_given = 0
    /\ HasNodes(dm.body.data[<<"reviews", 1>>])

(* C19: a call of get_users_contributed_repos_and_prs raises only when a    *)
(* batch has exhausted its retries; the call then returns no mapping, not   *)
(* even that of the batches merged before, requests no later batch and      *)
(* stores no cache entry, so the next call with the same key starts again   *)
(* at the first batch with POSTs of its own; a call that returns, returns   *)
(* the mapping of all its batches.                                          *)
C19_AllOrNothing ==
    LET f == th[1]
        n == Len(f.usernames)
    IN  /\ (f.fn = "users" /\ f.pc = "raised") =>
               /\ f.xp = 3
               /\ f.ret = <<>>
               /\ f.merged = Len(f.sent) - 1
               /\ ~LruHas(lru, <<f.usernames, f.org, f.days>>)
        /\ (f.fn = "users" /\ f.pc = "returned") =>
               /\ DOMAIN f.ret = Range(f.usernames)
               /\ ~f.hit => f.merged = CeilDiv(n, 25)
        /\ (last.fn = "users" /\ ~last.ok) =>
               /\ last.exc # ""
               /\ last.ret = <<>>
               /\ last.metrics = <<>>
               /\ (f.fn = "users" /\ FrameKey(f) = last.key) =>
                      /\ ~f.hit
                      /\ Len(f.sent) >= 1
                      /\ f.sent[1] = Group25(f.usernames, 1)
                      /\ f.pc \in {"returned", "raised"} => f.posts >= 1

\* the first batch of a call was merged, the second exhausted its retries and the call
\* raised; the caller has not yet taken the exception, and nothing is cached
C19_Witness ==
    /\ th[1].pc = "raised"
    /\ Len(th[1].sent) = 2
    /\ th[1].merged = 1
    /\ DOMAIN th[1].results # {}
    /\ th[1].bposts = 16
    /\ lru = <<>>

\* the call in progress of the caller has returned or raised
Ended == th[1].pc \in {"returned", "raised"}

(* C20: a call of get_users_contributed_repos_and_prs issues at most 16     *)
(* POSTs per batch and, whatever the upstream answers, eventually returns   *)
(* or raises; a call of get_org_members eventually returns or raises when   *)
(* the upstream reports a last page, and never returns when every page      *)
(* reports hasNextPage = true.                                              *)
C20_Termination ==
    /\ [](th[1].fn = "users" =>
             th[1].posts <= 16 * CeilDiv(Len(th[1].usernames), 25))
    /\ (th[1].fn = "users") ~> Ended
    /\ (th[1].fn = "members" /\ th[1].org = "acme") ~> Ended
    /\ [](th[1].fn = "members" /\ th[1].org = "endless" => th[1].pc # "returned")

\* a call with two batches ended after 32 POSTs, the most that two batches can take
C20_Witness ==
    /\ th[1].fn = "users"
    /\ Ended
    /\ Len(th[1].sent) = 2
    /\ th[1].posts = 32

====
